---- MODULE Spec2Model ----
(***************************************************************************)
(* Dash, the universal package manager (src/dash/dash.py).                 *)
(*                                                                         *)
(* PkgRepo is one remote package source (name + url); RepoCollection is a  *)
(* dict of PkgRepo keyed by name; the __main__ block loads the configured  *)
(* repositories and runs the install action.  The remote endpoints are the *)
(* environment: pkgDocs holds what GET {url}/packages/{pkg}.json answers,  *)
(* catalogs what GET {url}/all.json answers.                               *)
(*                                                                         *)
(* Python values are tagged records, Python dicts are sequences of         *)
(* [key, val] entries in insertion order, Python strings that the code     *)
(* looks into (package names, search terms) are sequences of characters.   *)
(***************************************************************************)
EXTENDS Integers, Sequences, FiniteSets, TLC

VARIABLES
    repos,      \* RepoCollection.repos: the registry dict
    pkgDocs,    \* remote: url -> package -> response of /packages/{pkg}.json
    catalogs,   \* remote: url -> response of /all.json
    call,       \* the operation invoked last and its arguments
    pc,         \* position inside the call: "idle", "fetch" or "done"
    reqs,       \* the HTTP requests the call has issued, with their responses
    ret,        \* the outcome of the call: a return value, a raise or an exit
    log         \* logger.critical messages of the call

vars == <<repos, pkgDocs, catalogs, call, pc, reqs, ret, log>>

-----------------------------------------------------------------------------
(* Bounds and input sets *)

MaxNameLen == 2
MaxTermLen == 2
MaxCatalogLen == 2

Alphabet == {"a", "A"}

Urls == {"u1", "u2", "u3"}
Pkgs == {"foo"}

\* The PkgRepo objects the configuration may hold: conf.get("repos") entries.
\* "A" is configured twice, under two urls, so that a later add overwrites.
ConfRepos ==
    { [name |-> "A", url |-> "u1"], [name |-> "B", url |-> "u2"],
      [name |-> "C", url |-> "u3"], [name |-> "A", url |-> "u2"] }

RepoNames == {r.name : r \in ConfRepos}

\* The --repo argument: absent (None), a configured name, or an unknown name.
NoRepo == "None"
RepoArgs == RepoNames \cup {NoRepo, "Z"}

-----------------------------------------------------------------------------
(* Python values and outcomes *)

PyBool(b) == [tag |-> "bool", b |-> b]
PyList(s) == [tag |-> "list", items |-> s]
PyDict(s) == [tag |-> "dict", items |-> s]
PyNone == [tag |-> "none"]

Return(v) == [kind |-> "return", val |-> v]
Raise(e, msg, about) == [kind |-> "raise", exc |-> e, msg |-> msg, about |-> about]
Exit(code, handoff, exc) == [kind |-> "exit", code |-> code, handoff |-> handoff, exc |-> exc]
NoOutcome == [kind |-> "none"]

\* Python dict as a sequence of entries: d[k] = v keeps the position of an
\* existing key and appends a new one.
DictKeys(d) == {d[i].key : i \in 1..Len(d)}
DictGet(d, k) == (CHOOSE i \in 1..Len(d) : d[i].key = k)
DictVal(d, k) == d[DictGet(d, k)].val
DictSet(d, k, v) ==
    IF k \in DictKeys(d)
    THEN [i \in 1..Len(d) |-> IF d[i].key = k THEN [key |-> k, val |-> v] ELSE d[i]]
    ELSE Append(d, [key |-> k, val |-> v])

-----------------------------------------------------------------------------
(* The remote endpoints *)

\* A response of requests.get: the call itself raises (net = "error"), or it
\* returns a response object with a status code and a body.
NetErr == [net |-> "error", status |-> 0, body |-> "none"]
Resp(s, b) == [net |-> "ok", status |-> s, body |-> b]

Statuses == {200, 404, 500}
Bodies == {"{\"v\":1}", "{\"v\":2}", "<html>"}
Responses == {NetErr} \cup {Resp(s, b) : s \in Statuses, b \in Bodies}

\* Response.json(): the parsed document, or JSONDecodeError.
ParseJson(body) ==
    CASE body = "{\"v\":1}" -> Return([tag |-> "dict", v |-> 1])
      [] body = "{\"v\":2}" -> Return([tag |-> "dict", v |-> 2])
      [] OTHER -> Raise("JSONDecodeError", "Expecting value", body)

PkgRequest(url, pkg) == [url |-> url, path |-> "packages", pkg |-> pkg]
AllRequest(url) == [url |-> url, path |-> "all", pkg |-> "-"]


\* A response to GET {url}/all.json: the request raises, the body is not JSON,
\* or the body is a JSON array of names or a JSON object keyed by name (of
\* which only the key order is kept; the values are opaque).
CatNetErr == [net |-> "error", json |-> FALSE, doc |-> PyNone]
CatMalformed == [net |-> "ok", json |-> FALSE, doc |-> PyNone]
CatDoc(d) == [net |-> "ok", json |-> TRUE, doc |-> d]

-----------------------------------------------------------------------------
(* class PkgRepo *)

\* Every operator below returns [reqs, out]: the requests issued, each with
\* the response received, and the outcome.
Done(rs, out) == [reqs |-> rs, out |-> out]
Sent(req, resp) == <<[req |-> req, resp |-> resp]>>

\* PkgRepo.exists
PkgRepo_exists(self, pkg, docs) ==
    LET resp == docs[self.url][pkg]
        rs == Sent(PkgRequest(self.url, pkg), resp)
    IN  IF resp.net = "error"
        THEN Done(rs, Raise("ConnectionError", "request failed", self.url))
        ELSE IF resp.status = 404
        THEN Done(rs, Return(PyBool(FALSE)))
        ELSE Done(rs, Return(PyBool(TRUE)))

\* PkgRepo.get up to the end of its existence check: NoOutcome when the
\* method goes on to the payload request.
PkgRepo_get_check(self, pkg, docs) ==
    LET e == PkgRepo_exists(self, pkg, docs)
    IN  IF e.out.kind = "raise" THEN e
        ELSE IF ~e.out.val.b
        THEN Done(e.reqs, Raise("Exception", "Package does not exist!", pkg))
        ELSE Done(e.reqs, NoOutcome)

\* Mutant of PkgRepo_get_fetch: the payload request treats a 404 answer as
\* "package does not exist", as the existence check does.
PkgRepo_get_fetch_checked(self, pkg, docs) ==
    LET resp == docs[self.url][pkg]
        rs == Sent(PkgRequest(self.url, pkg), resp)
    IN  IF resp.net = "error"
        THEN Done(rs, Raise("ConnectionError", "request failed", self.url))
        ELSE IF resp.status = 404
        THEN Done(rs, Raise("Exception", "Package does not exist!", pkg))
        ELSE Done(rs, ParseJson(resp.body))

\* PkgRepo.get from the payload request on.
PkgRepo_get_fetch(self, pkg, docs) ==
    LET resp == docs[self.url][pkg]
        rs == Sent(PkgRequest(self.url, pkg), resp)
    IN  IF resp.net = "error"
        THEN Done(rs, Raise("ConnectionError", "request failed", self.url))
        ELSE Done(rs, ParseJson(resp.body))

\* PkgRepo.get against a remote that does not change during the call.
PkgRepo_get(self, pkg, docs) ==
    LET c == PkgRepo_get_check(self, pkg, docs)
    IN  IF c.out.kind # "none" THEN c
        ELSE LET f == PkgRepo_get_fetch(self, pkg, docs)
             IN  Done(c.reqs \o f.reqs, f.out)

\* Mutant of StrIn: pkgName.startswith(term).
StrIn_prefix(term, s) == Len(term) <= Len(s) /\ SubSeq(s, 1, Len(term)) = term

\* Python's `term in pkgName` on strings: substring containment.
StrIn(term, s) ==
    \E i \in 1..(Len(s) - Len(term) + 1) : SubSeq(s, i, i + Len(term) - 1) = term

\* The loop of PkgRepo.search over the catalog's names.
RECURSIVE SearchLoop(_, _)
SearchLoop(data, term) ==
    IF data = <<>> THEN <<>>
    ELSE (IF StrIn(term, Head(data)) THEN <<Head(data)>> ELSE <<>>)
         \o SearchLoop(Tail(data), term)

\* requests.get(f"{self.url}/all.json").json()
FetchCatalog(self, cats) ==
    LET resp == cats[self.url]
        rs == Sent(AllRequest(self.url), resp)
    IN  IF resp.net = "error"
        THEN Done(rs, Raise("ConnectionError", "request failed", self.url))
        ELSE IF ~resp.json
        THEN Done(rs, Raise("JSONDecodeError", "Expecting value", self.url))
        ELSE Done(rs, Return(resp.doc))

\* PkgRepo.search
PkgRepo_search(self, term, cats) ==
    LET f == FetchCatalog(self, cats)
    IN  IF f.out.kind = "raise" THEN f
        ELSE Done(f.reqs, Return(PyList(SearchLoop(f.out.val.items, term))))

\* PkgRepo.list
PkgRepo_list(self, cats) == FetchCatalog(self, cats)

-----------------------------------------------------------------------------
(* class RepoCollection *)

\* Mutant of RepoCollection_add: self.repos.setdefault(repo.name, repo), the
\* first repository added under a name stays.
RepoCollection_add_keep(d, repo) ==
    IF repo.name \in DictKeys(d) THEN d ELSE Append(d, [key |-> repo.name, val |-> repo])

\* RepoCollection.add: self.repos[repo.name] = repo
RepoCollection_add(d, repo) == DictSet(d, repo.name, repo)

\* The loop of RepoCollection.exists from the i-th registry entry on; a
\* raise of repo.exists leaves the loop and the method.
RECURSIVE ExistsLoop(_, _, _, _, _, _)
ExistsLoop(d, i, pkg, docs, repoNames, rs) ==
    IF i > Len(d)
    THEN IF Len(repoNames) = 0
         THEN Done(rs, Return(PyBool(FALSE)))
         ELSE Done(rs, Return(PyList(repoNames)))
    ELSE LET repo == d[i].val
             e == PkgRepo_exists(repo, pkg, docs)
         IN  IF e.out.kind = "raise"
             THEN Done(rs \o e.reqs, e.out)
             ELSE ExistsLoop(d, i + 1, pkg, docs,
                             IF e.out.val.b THEN Append(repoNames, repo.name)
                                            ELSE repoNames,
                             rs \o e.reqs)

\* Mutant of RepoCollection_exists: only the first repository that holds the
\* package is reported.
RepoCollection_exists_first(d, pkg, docs) ==
    LET x == ExistsLoop(d, 1, pkg, docs, <<>>, <<>>)
    IN  IF x.out.kind = "return" /\ x.out.val.tag = "list"
        THEN Done(x.reqs, Return(PyList(<<Head(x.out.val.items)>>)))
        ELSE x

\* RepoCollection.exists
RepoCollection_exists(d, pkg, docs) == ExistsLoop(d, 1, pkg, docs, <<>>, <<>>)

\* Mutant of RepoCollection_get: a registered name is accepted, but the
\* package is taken from the first repository of the registry.
RepoCollection_get_first(d, pkg, repo, docs) ==
    IF repo \notin DictKeys(d)
    THEN Done(<<>>, Raise("Exception", "Repo does not exist!", repo))
    ELSE PkgRepo_get(d[1].val, pkg, docs)

\* RepoCollection.get
RepoCollection_get(d, pkg, repo, docs) ==
    IF repo \notin DictKeys(d)
    THEN Done(<<>>, Raise("Exception", "Repo does not exist!", repo))
    ELSE PkgRepo_get(DictVal(d, repo), pkg, docs)

\* The loop of RepoCollection.search: results[repo.name] = repo.search(term)
RECURSIVE SearchAllLoop(_, _, _, _, _, _)
SearchAllLoop(d, i, term, cats, results, rs) ==
    IF i > Len(d) THEN Done(rs, Return(PyDict(results)))
    ELSE LET repo == d[i].val
             r == PkgRepo_search(repo, term, cats)
         IN  IF r.out.kind = "raise"
             THEN Done(rs \o r.reqs, r.out)
             ELSE SearchAllLoop(d, i + 1, term, cats,
                                DictSet(results, repo.name, r.out.val), rs \o r.reqs)

\* Mutant of RepoCollection_search: a name already found in an earlier
\* repository is dropped from the later ones.
RepoCollection_search_dedup(d, term, cats) ==
    LET x == SearchAllLoop(d, 1, term, cats, <<>>, <<>>)
        res == x.out.val.items
        Seen(i) == UNION {{res[j].val.items[k] : k \in 1..Len(res[j].val.items)} :
                          j \in 1..(i - 1)}
    IN  IF x.out.kind = "raise" THEN x
        ELSE Done(x.reqs, Return(PyDict(
                 [i \in 1..Len(res) |->
                     [key |-> res[i].key,
                      val |-> PyList(SelectSeq(res[i].val.items,
                                               LAMBDA n : n \notin Seen(i)))]])))

\* RepoCollection.search
RepoCollection_search(d, term, cats) == SearchAllLoop(d, 1, term, cats, <<>>, <<>>)

\* The loop of RepoCollection.list: results[repo.name] = repo.list()
RECURSIVE ListAllLoop(_, _, _, _, _)
ListAllLoop(d, i, cats, results, rs) ==
    IF i > Len(d) THEN Done(rs, Return(PyDict(results)))
    ELSE LET repo == d[i].val
             r == PkgRepo_list(repo, cats)
         IN  IF r.out.kind = "raise"
             THEN Done(rs \o r.reqs, r.out)
             ELSE ListAllLoop(d, i + 1, cats,
                              DictSet(results, repo.name, r.out.val), rs \o r.reqs)

\* RepoCollection.list
RepoCollection_list(d, cats) == ListAllLoop(d, 1, cats, <<>>, <<>>)

-----------------------------------------------------------------------------
(* __main__: the install action *)

\* A logger.critical message: its wording, the package and repository it
\* names and the repository names it lists.
Critical(text, pkg, repo, names) ==
    [text |-> text, pkg |-> pkg, repo |-> repo, names |-> names]

Ran(rs, lg, out) == [reqs |-> rs, log |-> lg, out |-> out]

\* `if args.repo:` of the install branch, entered with repoArg given.  An
\* exception nobody catches ends the interpreter with status 1.
InstallFromRepo(d, query, repoArg, docs, rs) ==
    IF repoArg \notin DictKeys(d)
    THEN Ran(rs, <<>>, Exit(1, FALSE, "KeyError"))
    ELSE LET e == PkgRepo_exists(DictVal(d, repoArg), query, docs)
         IN  IF e.out.kind = "raise"
             THEN Ran(rs \o e.reqs, <<>>, Exit(1, FALSE, e.out.exc))
             ELSE IF e.out.val.b
             THEN Ran(rs \o e.reqs, <<>>, Exit(0, TRUE, "none"))
             ELSE Ran(rs \o e.reqs,
                      <<Critical("does not exist in repo", query, repoArg, <<>>)>>,
                      Exit(1, FALSE, "none"))

\* Mutant of Install_main: without --repo the first repository found is
\* taken, however many hold the package.
Install_main_guess(d, query, repoArg, docs) ==
    LET x == RepoCollection_exists(d, query, docs)
        res == x.out.val
    IN  IF x.out.kind = "raise"
        THEN Ran(x.reqs, <<>>, Exit(1, FALSE, x.out.exc))
        ELSE IF res.tag = "bool" /\ res.b = FALSE
        THEN Ran(x.reqs, <<Critical("does not exist", query, "-", <<>>)>>,
                 Exit(1, FALSE, "none"))
        ELSE IF repoArg # NoRepo
        THEN InstallFromRepo(d, query, repoArg, docs, x.reqs)
        ELSE Ran(x.reqs, <<>>, Exit(0, TRUE, "none"))

\* The install branch of __main__ on the loaded registry.
Install_main(d, query, repoArg, docs) ==
    LET x == RepoCollection_exists(d, query, docs)
        res == x.out.val
    IN  IF x.out.kind = "raise"
        THEN Ran(x.reqs, <<>>, Exit(1, FALSE, x.out.exc))
        ELSE IF res.tag = "bool" /\ res.b = FALSE
        THEN Ran(x.reqs, <<Critical("does not exist", query, "-", <<>>)>>,
                 Exit(1, FALSE, "none"))
        ELSE IF Len(res.items) > 1 /\ repoArg = NoRepo
        THEN Ran(x.reqs,
                 <<Critical("exists in multiple repos", query, "-", res.items)>>,
                 Exit(1, FALSE, "none"))
        ELSE IF repoArg # NoRepo
        THEN InstallFromRepo(d, query, repoArg, docs, x.reqs)
        ELSE Ran(x.reqs, <<>>, Exit(0, TRUE, "none"))

-----------------------------------------------------------------------------
(* Inputs and remote contents *)

NoneRepo == [name |-> "-", url |-> "-"]
Call(op, repo, name, pkg, term) ==
    [op |-> op, repo |-> repo, name |-> name, pkg |-> pkg, term |-> term]
NoCall == Call("none", NoneRepo, "-", "-", <<>>)

SeqsUpTo(S, n) == UNION {[1..k -> S] : k \in 0..n}
IsInjective(s) == \A i, j \in 1..Len(s) : s[i] = s[j] => i = j

\* Package names and search terms over the alphabet.
AllNames == SeqsUpTo(Alphabet, MaxNameLen)
AllTerms == SeqsUpTo(Alphabet, MaxTermLen)

\* Every /all.json answer within the bounds; a JSON object has unique keys.
AllCatalogs ==
    {CatNetErr, CatMalformed}
    \cup {CatDoc(PyList(c)) : c \in SeqsUpTo(AllNames, MaxCatalogLen)}
    \cup {CatDoc(PyDict(c)) : c \in {k \in SeqsUpTo(AllNames, MaxCatalogLen) : IsInjective(k)}}

Foo == <<"f", "o", "o">>
Foobar == <<"f", "o", "o", "b", "a", "r">>
Baz == <<"b", "a", "z">>

\* The /all.json answers and the terms of the collection-level runs.
CollCatalogs ==
    { CatDoc(PyList(<<Foo, Foobar, Baz>>)), CatDoc(PyList(<<Foo>>)),
      CatDoc(PyDict(<<Baz, Foo>>)), CatNetErr, CatMalformed }
CollTerms == {<<>>, Foo, <<"b", "a">>}

\* The /packages/{pkg}.json answers of the collection-level runs.
CollResponses ==
    { Resp(200, "{\"v\":1}"), Resp(200, "<html>"), Resp(404, "<html>"),
      Resp(500, "<html>"), NetErr }

DefaultDocs == [u \in Urls |-> [p \in Pkgs |-> Resp(404, "<html>")]]
DefaultCatalogs == [u \in Urls |-> CatDoc(PyList(<<>>))]

\* The repositories used on their own, outside a collection.
StandaloneRepos == {r \in ConfRepos : r.name # "C" /\ r.url # "u3"}
StandaloneUrls == {r.url : r \in StandaloneRepos}
SearchRepos == {r \in ConfRepos : r.url = "u1"}

-----------------------------------------------------------------------------
(* Actions *)

Finish(c, r) ==
    /\ call' = c
    /\ pc' = "done"
    /\ reqs' = r.reqs
    /\ ret' = r.out
    /\ log' = <<>>

\* repos.add(PkgRepo(name, url))
Add(repo) ==
    /\ pc # "fetch"
    /\ repos' = RepoCollection_add(repos, repo)
    /\ Finish(Call("add", repo, "-", "-", <<>>), Done(<<>>, Return(PyNone)))
    /\ UNCHANGED <<pkgDocs, catalogs>>

\* repos.exists(pkg)
CollExists(pkg) ==
    /\ pc # "fetch"
    /\ Finish(Call("coll.exists", NoneRepo, "-", pkg, <<>>),
              RepoCollection_exists(repos, pkg, pkgDocs))
    /\ UNCHANGED <<repos, pkgDocs, catalogs>>

\* repos.get(pkg, repo)
CollGet(pkg, name) ==
    /\ pc # "fetch"
    /\ Finish(Call("coll.get", NoneRepo, name, pkg, <<>>),
              RepoCollection_get(repos, pkg, name, pkgDocs))
    /\ UNCHANGED <<repos, pkgDocs, catalogs>>

\* repos.search(term)
CollSearch(term) ==
    /\ pc # "fetch"
    /\ Finish(Call("coll.search", NoneRepo, "-", "-", term),
              RepoCollection_search(repos, term, catalogs))
    /\ UNCHANGED <<repos, pkgDocs, catalogs>>

\* repos.list()
CollList ==
    /\ pc # "fetch"
    /\ Finish(Call("coll.list", NoneRepo, "-", "-", <<>>),
              RepoCollection_list(repos, catalogs))
    /\ UNCHANGED <<repos, pkgDocs, catalogs>>

\* python dash.py install <query> [--repo <repoArg>], on the loaded registry
Install(query, repoArg) ==
    /\ pc # "fetch"
    /\ LET r == Install_main(repos, query, repoArg, pkgDocs)
       IN  /\ call' = Call("install", NoneRepo, repoArg, query, <<>>)
           /\ pc' = "done"
           /\ reqs' = r.reqs
           /\ ret' = r.out
           /\ log' = r.log
    /\ UNCHANGED <<repos, pkgDocs, catalogs>>

\* repo.exists(pkg) on a repository of its own
RepoExists(repo, pkg) ==
    /\ pc # "fetch"
    /\ Finish(Call("repo.exists", repo, "-", pkg, <<>>),
              PkgRepo_exists(repo, pkg, pkgDocs))
    /\ UNCHANGED <<repos, pkgDocs, catalogs>>

\* repo.get(pkg), first half: the existence check
RepoGetCheck(repo, pkg) ==
    /\ pc # "fetch"
    /\ LET c == PkgRepo_get_check(repo, pkg, pkgDocs)
       IN  /\ call' = Call("repo.get", repo, "-", pkg, <<>>)
           /\ pc' = IF c.out.kind = "none" THEN "fetch" ELSE "done"
           /\ reqs' = c.reqs
           /\ ret' = c.out
           /\ log' = <<>>
    /\ UNCHANGED <<repos, pkgDocs, catalogs>>

\* repo.get(pkg), second half: the payload request
RepoGetFetch ==
    /\ pc = "fetch"
    /\ LET f == PkgRepo_get_fetch(call.repo, call.pkg, pkgDocs)
       IN  /\ pc' = "done"
           /\ reqs' = reqs \o f.reqs
           /\ ret' = f.out
    /\ UNCHANGED <<repos, pkgDocs, catalogs, call, log>>

\* The remote changes what it answers for a package, at any moment.
RemoteUpdate(url, pkg, resp) ==
    /\ pkgDocs[url][pkg] # resp
    /\ pkgDocs' = [pkgDocs EXCEPT ![url][pkg] = resp]
    /\ UNCHANGED <<repos, catalogs, call, pc, reqs, ret, log>>

\* repo.search(term) on a repository of its own
RepoSearch(repo, term) ==
    /\ pc # "fetch"
    /\ Finish(Call("repo.search", repo, "-", "-", term),
              PkgRepo_search(repo, term, catalogs))
    /\ UNCHANGED <<repos, pkgDocs, catalogs>>

\* repo.list() on a repository of its own
RepoList(repo) ==
    /\ pc # "fetch"
    /\ Finish(Call("repo.list", repo, "-", "-", <<>>), PkgRepo_list(repo, catalogs))
    /\ UNCHANGED <<repos, pkgDocs, catalogs>>

-----------------------------------------------------------------------------
(* Specifications *)

Idle ==
    /\ repos = <<>>
    /\ call = NoCall
    /\ pc = "idle"
    /\ reqs = <<>>
    /\ ret = NoOutcome
    /\ log = <<>>

\* The collection and the install action, over every remote within the input
\* sets: the package documents vary or the catalogs do.
Init ==
    /\ Idle
    /\ \/ pkgDocs \in [Urls -> [Pkgs -> CollResponses]] /\ catalogs = DefaultCatalogs
       \/ pkgDocs = DefaultDocs /\ catalogs \in [Urls -> CollCatalogs]

Next ==
    \/ \E repo \in ConfRepos : Add(repo)
    \/ \E pkg \in Pkgs : CollExists(pkg)
    \/ \E pkg \in Pkgs, name \in RepoArgs \ {NoRepo} : CollGet(pkg, name)
    \/ \E term \in CollTerms : CollSearch(term)
    \/ CollList
    \/ \E pkg \in Pkgs, repoArg \in RepoArgs : Install(pkg, repoArg)

Spec == Init /\ [][Next]_vars

\* One repository against a remote that changes between requests.
InitRepo ==
    /\ Idle
    /\ pkgDocs = DefaultDocs
    /\ catalogs = DefaultCatalogs

NextRepo ==
    \/ \E repo \in StandaloneRepos, pkg \in Pkgs : RepoExists(repo, pkg)
    \/ \E repo \in StandaloneRepos, pkg \in Pkgs : RepoGetCheck(repo, pkg)
    \/ RepoGetFetch
    \/ \E url \in StandaloneUrls, pkg \in Pkgs, resp \in Responses :
          RemoteUpdate(url, pkg, resp)

SpecRepo == InitRepo /\ [][NextRepo]_vars

\* One repository's search and list over every catalog within the bounds.
InitSearch ==
    /\ Idle
    /\ pkgDocs = DefaultDocs
    /\ \E c \in AllCatalogs :
          catalogs = [u \in Urls |-> IF u = "u1" THEN c ELSE CatDoc(PyList(<<>>))]

NextSearch ==
    \/ \E repo \in SearchRepos, term \in AllTerms : RepoSearch(repo, term)
    \/ \E repo \in SearchRepos : RepoList(repo)

SpecSearch == InitSearch /\ [][NextSearch]_vars

-----------------------------------------------------------------------------
(* Properties *)

\* What the registered repositories answer for the package of the call.
Registered == {repos[i].val : i \in 1..Len(repos)}
Reports(repo, pkg) == PkgRepo_exists(repo, pkg, pkgDocs).out = Return(PyBool(TRUE))
Fails(repo, pkg) == PkgRepo_exists(repo, pkg, pkgDocs).out.kind = "raise"
Reporting(pkg) == {r \in Registered : Reports(r, pkg)}
AllAnswer(pkg) == \A r \in Registered : ~Fails(r, pkg)
ItemSet(s) == {s[i] : i \in 1..Len(s)}

C3_GetDelegates ==
    (call.op = "coll.get") =>
        /\ (ret.kind = "raise" /\ ret.msg = "Repo does not exist!")
              <=> (call.name \notin DictKeys(repos))
        /\ (call.name \notin DictKeys(repos)) => reqs = <<>>
        /\ (call.name \in DictKeys(repos)) =>
            LET repo == DictVal(repos, call.name)
                own == PkgRepo_get(repo, call.pkg, pkgDocs)
            IN  /\ repo.name = call.name
                /\ ret = own.out
                /\ reqs = own.reqs
                /\ \A i \in 1..Len(reqs) : reqs[i].req.url = repo.url
                /\ (pkgDocs[repo.url][call.pkg].net = "ok"
                      /\ pkgDocs[repo.url][call.pkg].status = 404)
                   => ret = Raise("Exception", "Package does not exist!", call.pkg)

\* C3 witness: get(p, r) on a registered r that answers 404 while another
\* registered repository holds p ended with the package-not-found error.
C3_Witness ==
    /\ call.op = "coll.get"
    /\ call.name \in DictKeys(repos)
    /\ ret = Raise("Exception", "Package does not exist!", call.pkg)
    /\ \E r \in Registered : r.name # call.name /\ Reports(r, call.pkg)

\* C4 (as claimed): PkgRepo.exists returns False only on a 404 answer, and a
\* lookup that fails any other way (no answer, a status other than 200 and
\* 404, a body that is not JSON) raises instead of returning True or False.
C4_ExistsPropagatesFailures ==
    (call.op = "repo.exists" /\ pc = "done") =>
        LET resp == reqs[1].resp
        IN  /\ (ret = Return(PyBool(FALSE))) => (resp.net = "ok" /\ resp.status = 404)
            /\ (\/ resp.net = "error"
                \/ resp.status \notin {200, 404}
                \/ (resp.status = 200 /\ ParseJson(resp.body).kind = "raise"))
               => ret.kind = "raise"

\* C5 (as claimed): with three registered repositories of which exactly one
\* is unreachable, RepoCollection.search returns a mapping with a slot for
\* each of the three, the two reachable ones holding their search results.
C5_SearchPartialFailure ==
    (call.op = "coll.search" /\ Len(repos) = 3
        /\ Cardinality({r \in Registered : catalogs[r.url] = CatNetErr}) = 1
        /\ \A r \in Registered : catalogs[r.url] = CatNetErr \/ catalogs[r.url].json) =>
        /\ ret.kind = "return"
        /\ {ret.val.items[i].key : i \in 1..Len(ret.val.items)} = DictKeys(repos)
        /\ \A r \in Registered : catalogs[r.url].json =>
              DictVal(ret.val.items, r.name) = PkgRepo_search(r, call.term, catalogs).out.val


\* t occurs in s as a contiguous run of equal characters (case included).
IsSubstring(t, s) ==
    \E k \in 0..(Len(s) - Len(t)) : \A j \in 1..Len(t) : s[k + j] = t[j]
Count(x, s) == Cardinality({i \in 1..Len(s) : s[i] = x})

\* s is a subsequence of t: s is t with some elements removed.
RECURSIVE IsSubsequence(_, _)
IsSubsequence(s, t) ==
    IF s = <<>> THEN TRUE
    ELSE IF t = <<>> THEN FALSE
    ELSE IF Head(s) = Head(t) THEN IsSubsequence(Tail(s), Tail(t))
    ELSE IsSubsequence(s, Tail(t))

\* C6: whenever the catalog can be fetched, PkgRepo.search(term) returns a
\* list: the names of PkgRepo.list() that contain term as a case-sensitive
\* substring, in catalog order and nothing else (a subsequence of the list);
\* all of them for the empty term, and the empty list when nothing matches.
C6_SearchFiltersList ==
    (call.op = "repo.search" /\ catalogs[call.repo.url].json) =>
        LET listed == PkgRepo_list(call.repo, catalogs).out.val.items
            found == ret.val.items
        IN  /\ ret.kind = "return"
            /\ ret.val.tag = "list"
            /\ IsSubsequence(found, listed)
            /\ \A n \in ItemSet(listed) :
                  Count(n, found) = IF IsSubstring(call.term, n) THEN Count(n, listed) ELSE 0
            /\ (call.term = <<>>) => (found = listed)
            /\ (\A n \in ItemSet(listed) : ~IsSubstring(call.term, n)) => (found = <<>>)

\* C6 witness: a search that kept a name holding the term past its first
\* character and dropped a name that differs from the term only in case.
C6_Witness ==
    /\ call.op = "repo.search"
    /\ ret.kind = "return"
    /\ call.term = <<"a">>
    /\ catalogs[call.repo.url].doc.items = <<<<"A">>, <<"A", "a">>>>
    /\ ret.val.items = <<<<"A", "a">>>>

\* C7: when every registered repository answers with a catalog,
\* RepoCollection.search(term) and RepoCollection.list() return a mapping
\* whose keys are exactly the registered names and whose value at each name
\* is that repository's own search(term), respectively list(), result; a name
\* held by two repositories stays under both keys.
C7_AggregateShape ==
    (call.op \in {"coll.search", "coll.list"}
        /\ \A r \in Registered : catalogs[r.url].json) =>
        /\ ret.kind = "return"
        /\ ret.val.tag = "dict"
        /\ Len(ret.val.items) = Len(repos)
        /\ \A i \in 1..Len(repos) :
            LET repo == repos[i].val
                names == catalogs[repo.url].doc.items
            IN  /\ ret.val.items[i].key = repos[i].key
                /\ (call.op = "coll.list") =>
                      ret.val.items[i].val = catalogs[repo.url].doc
                /\ (call.op = "coll.search") =>
                      /\ ret.val.items[i].val.tag = "list"
                      /\ IsSubsequence(ret.val.items[i].val.items, names)
                      /\ \A n \in ItemSet(names) :
                            Count(n, ret.val.items[i].val.items) =
                               IF IsSubstring(call.term, n) THEN Count(n, names) ELSE 0

\* C7 witness: a search over three repositories on three urls returned the
\* same package name under two keys.
C7_Witness ==
    /\ call.op = "coll.search"
    /\ ret.kind = "return"
    /\ Len(ret.val.items) = 3
    /\ Cardinality({r.url : r \in Registered}) = 3
    /\ \E i, j \in 1..3 :
          /\ i # j
          /\ Foo \in ItemSet(ret.val.items[i].val.items)
          /\ Foo \in ItemSet(ret.val.items[j].val.items)

\* C8 (as claimed): when every registered repository answers, the install
\* action ends with exit code 1 and a critical message naming the package or
\* the repository in each unrecoverable case, and with --repo given the
\* handoff is reached only if the named repository reports the package.
C8_InstallFailuresLogged ==
    (call.op = "install" /\ AllAnswer(call.pkg)) =>
        LET nowhere == Reporting(call.pkg) = {}
            ambiguous == Cardinality(Reporting(call.pkg)) > 1 /\ call.name = NoRepo
            unknown == call.name # NoRepo /\ call.name \notin DictKeys(repos)
            absent == /\ call.name \in DictKeys(repos)
                      /\ ~Reports(DictVal(repos, call.name), call.pkg)
        IN  /\ (nowhere \/ ambiguous \/ unknown \/ absent) =>
                /\ ret.kind = "exit"
                /\ ret.code = 1
                /\ Len(log) > 0
                /\ log[1].pkg = call.pkg \/ log[1].repo = call.name
            /\ (call.name # NoRepo /\ ret.handoff) =>
                /\ call.name \in DictKeys(repos)
                /\ Reports(DictVal(repos, call.name), call.pkg)

KeyIsName == \A i \in 1..Len(repos) : repos[i].val.name = repos[i].key

\* A step that is a call of RepoCollection.add: the added name maps to the
\* added repository and every other entry is as before.
AddEffect ==
    (call'.op = "add") =>
        LET name == call'.repo.name
        IN  /\ DictKeys(repos') = DictKeys(repos) \cup {name}
            /\ DictVal(repos', name) = call'.repo
            /\ \A k \in DictKeys(repos) \ {name} : DictVal(repos', k) = DictVal(repos, k)
            /\ IsInjective([i \in 1..Len(repos') |-> repos'[i].key])

\* A step that is a call of exists, get, search, list or the install action.
ReadOnly == (call'.op # "add") => (repos' = repos)

\* C9: every value of the registry has a name equal to its key; a call of add
\* maps the added repository's name to that repository (the last one added
\* under a name wins) and leaves every other entry unchanged; exists, get,
\* search and list leave the registry unchanged.
C9_RegistryDiscipline == []KeyIsName /\ [][AddEffect /\ ReadOnly]_vars

\* C9 witness: "A" was added a second time, under another url, after "B" and
\* "C" were registered, and the registry maps "A" to the later repository.
C9_Witness ==
    /\ call.op = "add"
    /\ call.repo = [name |-> "A", url |-> "u2"]
    /\ Len(repos) = 3
    /\ repos[1].key = "A"
    /\ repos[1].val.url = "u2"

IsNotFound(out) == out.kind = "raise" /\ out.msg = "Package does not exist!"

\* C10: PkgRepo.get(pkg) raises the package-not-found error exactly when its
\* existence request is answered 404, and then issues no payload request;
\* when that request is answered with any other status it issues a second
\* request for the same document and its outcome is the parse of the second
\* response alone (the connection error when that request fails), even when
\* the second answer is a 404; an existence request that gets no answer ends
\* the call with the connection error.
C10_GetTwoRequests ==
    (call.op = "repo.get") =>
        LET first == reqs[1].resp
        IN  /\ reqs[1].req = PkgRequest(call.repo.url, call.pkg)
            /\ (pc = "fetch") => (Len(reqs) = 1 /\ first.net = "ok" /\ first.status # 404)
            /\ (pc = "done") =>
                /\ IsNotFound(ret) <=> (first.net = "ok" /\ first.status = 404)
                /\ IsNotFound(ret) => Len(reqs) = 1
                /\ (first.net = "error") =>
                      (Len(reqs) = 1 /\ ret.kind = "raise" /\ ret.exc = "ConnectionError")
                /\ (first.net = "ok" /\ first.status # 404) =>
                    /\ Len(reqs) = 2
                    /\ reqs[2].req = reqs[1].req
                    /\ ret = IF reqs[2].resp.net = "error"
                             THEN Raise("ConnectionError", "request failed", call.repo.url)
                             ELSE ParseJson(reqs[2].resp.body)

\* C10 witness: the remote answered the existence request 200 and the
\* payload request 404 with another document, and get returned that document.
C10_Witness ==
    /\ call.op = "repo.get"
    /\ pc = "done"
    /\ Len(reqs) = 2
    /\ reqs[1].resp = Resp(200, "{\"v\":1}")
    /\ reqs[2].resp = Resp(404, "{\"v\":2}")
    /\ ret = Return([tag |-> "dict", v |-> 2])

====
